---- MODULE Spec2Model ----
(***************************************************************************)
(* A model of the generic AVL tree of src/AVL.c and src/AVL.h.  The heap   *)
(* of AVLNode structures is a function from node addresses to records, the *)
(* tree is the address held in the caller's root variable, and each of the *)
(* public functions is an operator over a machine record that carries the  *)
(* heap, the function's return value and a log of what the call did.       *)
(***************************************************************************)
EXTENDS Integers, Sequences, FiniteSets, TLC

\* ---------------------------------------------------------------- bounds
\* The int values the caller stores are 1..MaxKey.
MaxKey == 4

Keys == 1..MaxKey

\* The length of the run of consecutive keys inserted in ascending order.
AscendingKeys == 30

\* The height of the subtrees handed to rebalance and the rotations as the
\* two children of their argument.
MaxChildHeight == 2

\* The values of the runs that only insert.
InsertKeys == 6

\* ------------------------------------------------------------- memory
\* The null pointer.
NULL == 0

\* Addresses malloc can hand out for AVLNode structures.  More than the
\* number of keys of any run, so that an insert that wrongly allocates still
\* finds room.
Addrs == 1..(MaxKey + AscendingKeys)

\* Pointers to int.  Every int value has three int objects that may hold it:
\* slots 0 and 1 are heap objects made by create_int (two, so that a second
\* object holding a value already in the tree is a different pointer), slot 2
\* is the caller's local variable whose address is passed as a search key.
intPtr(value, slot) == 3 * (value - 1) + slot + 1

\* *(const int *)p
deref(p) == ((p - 1) \div 3) + 1

\* &val of a caller's local int val
addrOfLocal(value) == intPtr(value, 2)

\* The content of an int field of a malloc'ed structure that was never
\* assigned: the field holds no value of its own, and a read of it may
\* produce any int.
INDETERMINATE == -1

\* The ints a read of an indeterminate field is taken to produce.
IntSample == 0..(MaxKey + 1)

\* The values a read of node->size may produce.
readSize(h, node) ==
    IF h[node].size = INDETERMINATE THEN IntSample ELSE {h[node].size}

\* MAX(a, b) of AVL.h
MAX(a, b) == IF a > b THEN a ELSE b

\* ABS(x) of AVL.h
ABS(x) == IF x < 0 THEN -x ELSE x

\* int_compare: (ia > ib) - (ia < ib)
int_compare(a, b) ==
    LET ia == deref(a)
        ib == deref(b)
    IN (IF ia > ib THEN 1 ELSE 0) - (IF ia < ib THEN 1 ELSE 0)

\* ------------------------------------------------------------- machine
\* The machine record threaded through a call:
\*   h       the heap: DOMAIN h is the set of allocated AVLNode addresses
\*   r       the return value of the function just executed
\* and, as a log of what the call did, in order:
\*   rots    the rotations performed, as <<direction, node>>
\*   noop    the rotations that took their absent-child early return
\*   rebal   the calls of rebalance on a node, as <<node, balance, valid>>:
\*           the balance computed after the height update and whether
\*           isValidAVL accepted both children at the call
\*   rel     the pointers free_data was invoked on
\*   freed   the node addresses passed to free
\*   created the node addresses returned by createNode
\*   moved   the data pointers assigned to an existing node, as <<node, data>>
Machine(h) ==
    [h |-> h, r |-> NULL, rots |-> <<>>, noop |-> <<>>, rebal |-> <<>>,
     rel |-> <<>>, freed |-> <<>>, created |-> <<>>, moved |-> <<>>]

Return(m, value) == [m EXCEPT !.r = value]

\* malloc(sizeof(AVLNode)): an address that is not allocated.
malloc(h) == CHOOSE a \in Addrs \ DOMAIN h : \A b \in Addrs \ DOMAIN h : a <= b

\* free(node)
free(m, node) ==
    [m EXCEPT !.h = [a \in (DOMAIN m.h) \ {node} |-> m.h[a]],
              !.freed = Append(@, node)]

\* free_data(data) with free_data = int_free
int_free(m, data) == [m EXCEPT !.rel = Append(@, data)]

\* create_int(value): a heap int object not in use holding value.  live is
\* the set of int objects in use.
create_int(live, value) ==
    IF intPtr(value, 0) \notin live THEN intPtr(value, 0) ELSE intPtr(value, 1)

\* ------------------------------------------------------- basic operations
getHeight(h, node) == IF node # NULL THEN h[node].height ELSE 0

getBalance(h, node) ==
    IF node # NULL
    THEN getHeight(h, h[node].left) - getHeight(h, h[node].right)
    ELSE 0

updateHeight(m, node) ==
    IF node = NULL
    THEN m
    ELSE [m EXCEPT !.h[node].height =
              1 + MAX(getHeight(m.h, m.h[node].left), getHeight(m.h, m.h[node].right))]

\* createNode assigns data, left, right and height; size is left as malloc
\* returned it.
createNode(m, data) ==
    LET node == malloc(m.h)
        cell == [data |-> data, left |-> NULL, right |-> NULL,
                 height |-> 1, size |-> INDETERMINATE]
    IN [m EXCEPT !.h = (node :> cell) @@ m.h,
                 !.r = node,
                 !.created = Append(@, node)]

\* isValidAVL(root): every node balanced and its stored height consistent.
RECURSIVE isValidAVL(_, _)
isValidAVL(h, root) ==
    IF root = NULL
    THEN TRUE
    ELSE LET balance == getBalance(h, root)
             expectedHeight ==
                 1 + MAX(getHeight(h, h[root].left), getHeight(h, h[root].right))
         IN IF ABS(balance) > 1
            THEN FALSE
            ELSE IF h[root].height # expectedHeight
            THEN FALSE
            ELSE isValidAVL(h, h[root].left) /\ isValidAVL(h, h[root].right)

\* ------------------------------------------------------------- rotations
\* rotateRight without the updateHeight(node) of the node that went down.
rotateRightStaleHeight(m, node) ==
    IF node = NULL \/ m.h[node].left = NULL
    THEN [m EXCEPT !.r = node, !.noop = Append(@, <<"R", node>>)]
    ELSE LET pivot == m.h[node].left
             m1 == [m EXCEPT !.h[node].left = m.h[pivot].right]
             m2 == [m1 EXCEPT !.h[pivot].right = node]
             m4 == updateHeight(m2, pivot)
         IN [m4 EXCEPT !.r = pivot, !.rots = Append(@, <<"R", node>>)]

rotateRight(m, node) ==
    IF node = NULL \/ m.h[node].left = NULL
    THEN [m EXCEPT !.r = node, !.noop = Append(@, <<"R", node>>)]
    ELSE LET pivot == m.h[node].left
             m1 == [m EXCEPT !.h[node].left = m.h[pivot].right]
             m2 == [m1 EXCEPT !.h[pivot].right = node]
             m3 == updateHeight(m2, node)
             m4 == updateHeight(m3, pivot)
         IN [m4 EXCEPT !.r = pivot, !.rots = Append(@, <<"R", node>>)]

\* rotateLeft that recomputes the height of the promoted child before that of
\* the node that went down.
rotateLeftPivotFirst(m, node) ==
    IF node = NULL \/ m.h[node].right = NULL
    THEN [m EXCEPT !.r = node, !.noop = Append(@, <<"L", node>>)]
    ELSE LET pivot == m.h[node].right
             m1 == [m EXCEPT !.h[node].right = m.h[pivot].left]
             m2 == [m1 EXCEPT !.h[pivot].left = node]
             m3 == updateHeight(m2, pivot)
             m4 == updateHeight(m3, node)
         IN [m4 EXCEPT !.r = pivot, !.rots = Append(@, <<"L", node>>)]

rotateLeft(m, node) ==
    IF node = NULL \/ m.h[node].right = NULL
    THEN [m EXCEPT !.r = node, !.noop = Append(@, <<"L", node>>)]
    ELSE LET pivot == m.h[node].right
             m1 == [m EXCEPT !.h[node].right = m.h[pivot].left]
             m2 == [m1 EXCEPT !.h[pivot].left = node]
             m3 == updateHeight(m2, node)
             m4 == updateHeight(m3, pivot)
         IN [m4 EXCEPT !.r = pivot, !.rots = Append(@, <<"L", node>>)]

\* rebalance whose left-right and right-left cases rotate the node alone.
rebalanceSingleOnly(m, node) ==
    IF node = NULL
    THEN Return(m, node)
    ELSE LET m0 == updateHeight(m, node)
             balance == getBalance(m0.h, node)
             m1 == [m0 EXCEPT !.rebal = Append(@, <<node, balance>>)]
         IN IF balance > 1
            THEN rotateRight(m1, node)
            ELSE IF balance < -1
            THEN rotateLeft(m1, node)
            ELSE Return(m1, node)

\* rebalance that updates the height and never rotates.
rebalanceNeverRotates(m, node) ==
    IF node = NULL
    THEN Return(m, node)
    ELSE LET m0 == updateHeight(m, node)
             balance == getBalance(m0.h, node)
         IN Return([m0 EXCEPT !.rebal = Append(@, <<node, balance>>)], node)

\* rebalance whose double rotations do not store the result of the first
\* rotation in the node.
rebalanceDropsInnerRotation(m, node) ==
    IF node = NULL
    THEN Return(m, node)
    ELSE LET m0 == updateHeight(m, node)
             balance == getBalance(m0.h, node)
             m1 == [m0 EXCEPT !.rebal = Append(@, <<node, balance>>)]
         IN IF balance > 1 /\ getBalance(m1.h, m1.h[node].left) >= 0
            THEN rotateRight(m1, node)
            ELSE IF balance > 1 /\ getBalance(m1.h, m1.h[node].left) < 0
            THEN rotateRight(rotateLeft(m1, m1.h[node].left), node)
            ELSE IF balance < -1 /\ getBalance(m1.h, m1.h[node].right) <= 0
            THEN rotateLeft(m1, node)
            ELSE IF balance < -1 /\ getBalance(m1.h, m1.h[node].right) > 0
            THEN rotateLeft(rotateRight(m1, m1.h[node].right), node)
            ELSE Return(m1, node)

\* rebalance with the tests on the child's balance exchanged between the
\* single and the double rotation.
rebalanceSwapsInnerTests(m, node) ==
    IF node = NULL
    THEN Return(m, node)
    ELSE LET m0 == updateHeight(m, node)
             balance == getBalance(m0.h, node)
             m1 == [m0 EXCEPT !.rebal = Append(@, <<node, balance>>)]
         IN IF balance > 1 /\ getBalance(m1.h, m1.h[node].left) < 0
            THEN rotateRight(m1, node)
            ELSE IF balance > 1 /\ getBalance(m1.h, m1.h[node].left) >= 0
            THEN LET m2 == rotateLeft(m1, m1.h[node].left)
                     m3 == [m2 EXCEPT !.h[node].left = m2.r]
                 IN rotateRight(m3, node)
            ELSE IF balance < -1 /\ getBalance(m1.h, m1.h[node].right) > 0
            THEN rotateLeft(m1, node)
            ELSE IF balance < -1 /\ getBalance(m1.h, m1.h[node].right) <= 0
            THEN LET m2 == rotateRight(m1, m1.h[node].right)
                     m3 == [m2 EXCEPT !.h[node].right = m2.r]
                 IN rotateLeft(m3, node)
            ELSE Return(m1, node)

\* rebalance that handles the left-heavy cases only.
rebalanceLeftHeavyOnly(m, node) ==
    IF node = NULL
    THEN Return(m, node)
    ELSE LET m0 == updateHeight(m, node)
             balance == getBalance(m0.h, node)
             m1 == [m0 EXCEPT !.rebal = Append(@, <<node, balance>>)]
         IN IF balance > 1 /\ getBalance(m1.h, m1.h[node].left) >= 0
            THEN rotateRight(m1, node)
            ELSE IF balance > 1 /\ getBalance(m1.h, m1.h[node].left) < 0
            THEN LET m2 == rotateLeft(m1, m1.h[node].left)
                     m3 == [m2 EXCEPT !.h[node].left = m2.r]
                 IN rotateRight(m3, node)
            ELSE Return(m1, node)

\* rebalance that rotates at a balance of 1 or -1 already.
rebalanceEager(m, node) ==
    IF node = NULL
    THEN Return(m, node)
    ELSE LET m0 == updateHeight(m, node)
             balance == getBalance(m0.h, node)
             m1 == [m0 EXCEPT !.rebal = Append(@, <<node, balance>>)]
         IN IF balance >= 1 /\ getBalance(m1.h, m1.h[node].left) >= 0
            THEN rotateRight(m1, node)
            ELSE IF balance >= 1 /\ getBalance(m1.h, m1.h[node].left) < 0
            THEN LET m2 == rotateLeft(m1, m1.h[node].left)
                     m3 == [m2 EXCEPT !.h[node].left = m2.r]
                 IN rotateRight(m3, node)
            ELSE IF balance <= -1 /\ getBalance(m1.h, m1.h[node].right) <= 0
            THEN rotateLeft(m1, node)
            ELSE IF balance <= -1 /\ getBalance(m1.h, m1.h[node].right) > 0
            THEN LET m2 == rotateRight(m1, m1.h[node].right)
                     m3 == [m2 EXCEPT !.h[node].right = m2.r]
                 IN rotateLeft(m3, node)
            ELSE Return(m1, node)

rebalance(m, node) ==
    IF node = NULL
    THEN Return(m, node)
    ELSE LET m0 == updateHeight(m, node)
             balance == getBalance(m0.h, node)
             valid == /\ isValidAVL(m0.h, m0.h[node].left)
                      /\ isValidAVL(m0.h, m0.h[node].right)
             m1 == [m0 EXCEPT !.rebal = Append(@, <<node, balance, valid>>)]
         IN IF balance > 1 /\ getBalance(m1.h, m1.h[node].left) >= 0
            THEN rotateRight(m1, node)
            ELSE IF balance > 1 /\ getBalance(m1.h, m1.h[node].left) < 0
            THEN LET m2 == rotateLeft(m1, m1.h[node].left)
                     m3 == [m2 EXCEPT !.h[node].left = m2.r]
                 IN rotateRight(m3, node)
            ELSE IF balance < -1 /\ getBalance(m1.h, m1.h[node].right) <= 0
            THEN rotateLeft(m1, node)
            ELSE IF balance < -1 /\ getBalance(m1.h, m1.h[node].right) > 0
            THEN LET m2 == rotateRight(m1, m1.h[node].right)
                     m3 == [m2 EXCEPT !.h[node].right = m2.r]
                 IN rotateLeft(m3, node)
            ELSE Return(m1, node)

\* ---------------------------------------------------------- tree operations
RECURSIVE insert(_, _, _)
\* insert that returns the node without the call of rebalance.
insertSkipsRebalance(m, node, data) ==
    IF node = NULL
    THEN createNode(m, data)
    ELSE LET cmp == int_compare(data, m.h[node].data)
         IN IF cmp < 0
            THEN LET m1 == insert(m, m.h[node].left, data)
                     m2 == [m1 EXCEPT !.h[node].left = m1.r]
                 IN Return(m2, node)
            ELSE IF cmp > 0
            THEN LET m1 == insert(m, m.h[node].right, data)
                     m2 == [m1 EXCEPT !.h[node].right = m1.r]
                 IN Return(m2, node)
            ELSE Return(m, node)

\* insert with the two descents exchanged: smaller values go right.
insertMirrored(m, node, data) ==
    IF node = NULL
    THEN createNode(m, data)
    ELSE LET cmp == int_compare(data, m.h[node].data)
         IN IF cmp > 0
            THEN LET m1 == insert(m, m.h[node].left, data)
                     m2 == [m1 EXCEPT !.h[node].left = m1.r]
                 IN rebalance(m2, node)
            ELSE IF cmp < 0
            THEN LET m1 == insert(m, m.h[node].right, data)
                     m2 == [m1 EXCEPT !.h[node].right = m1.r]
                 IN rebalance(m2, node)
            ELSE Return(m, node)

\* insert that stores the new data pointer in the node that compares equal.
insertReplacesDuplicate(m, node, data) ==
    IF node = NULL
    THEN createNode(m, data)
    ELSE LET cmp == int_compare(data, m.h[node].data)
         IN IF cmp < 0
            THEN LET m1 == insert(m, m.h[node].left, data)
                     m2 == [m1 EXCEPT !.h[node].left = m1.r]
                 IN rebalance(m2, node)
            ELSE IF cmp > 0
            THEN LET m1 == insert(m, m.h[node].right, data)
                     m2 == [m1 EXCEPT !.h[node].right = m1.r]
                 IN rebalance(m2, node)
            ELSE Return([m EXCEPT !.h[node].data = data], node)

insert(m, node, data) ==
    IF node = NULL
    THEN createNode(m, data)
    ELSE LET cmp == int_compare(data, m.h[node].data)
         IN IF cmp < 0
            THEN LET m1 == insert(m, m.h[node].left, data)
                     m2 == [m1 EXCEPT !.h[node].left = m1.r]
                 IN rebalance(m2, node)
            ELSE IF cmp > 0
            THEN LET m1 == insert(m, m.h[node].right, data)
                     m2 == [m1 EXCEPT !.h[node].right = m1.r]
                 IN rebalance(m2, node)
            ELSE Return(m, node)

RECURSIVE search(_, _, _)
search(h, node, data) ==
    IF node = NULL
    THEN NULL
    ELSE LET cmp == int_compare(data, h[node].data)
         IN IF cmp = 0
            THEN node
            ELSE IF cmp < 0
            THEN search(h, h[node].left, data)
            ELSE search(h, h[node].right, data)

\* findMin that follows right children, as findMax does.
RECURSIVE findMinDescendsRight(_, _)
findMinDescendsRight(h, node) ==
    IF node = NULL
    THEN NULL
    ELSE IF h[node].right # NULL
    THEN findMinDescendsRight(h, h[node].right)
    ELSE node

RECURSIVE findMin(_, _)
findMin(h, node) ==
    IF node = NULL
    THEN NULL
    ELSE IF h[node].left # NULL
    THEN findMin(h, h[node].left)
    ELSE node

\* findMax with an if in the place of the while: one step to the right.
findMaxOneStep(h, node) ==
    IF node = NULL
    THEN NULL
    ELSE IF h[node].right # NULL
    THEN h[node].right
    ELSE node

RECURSIVE findMax(_, _)
findMax(h, node) ==
    IF node = NULL
    THEN NULL
    ELSE IF h[node].right # NULL
    THEN findMax(h, h[node].right)
    ELSE node

\* free_data is TRUE for int_free and FALSE for a NULL function pointer.
RECURSIVE delete(_, _, _, _)

\* delete, the node found has at most one child: the node is freed and its
\* child, if any, returned without a call of rebalance.
\* The one-child case returning NULL where the child is to be returned.
delete_one_childDropsChild(m, node, free_data) ==
    LET m1 == IF free_data THEN int_free(m, m.h[node].data) ELSE m
        m2 == free(m1, node)
    IN Return(m2, NULL)

delete_one_child(m, node, free_data) ==
    LET temp == IF m.h[node].left # NULL THEN m.h[node].left ELSE m.h[node].right
        m1 == IF free_data THEN int_free(m, m.h[node].data) ELSE m
        m2 == free(m1, node)
    IN IF temp = NULL THEN Return(m2, NULL) ELSE Return(m2, temp)

\* The two-child case passing free_data on to the removal of the successor.
delete_two_childrenReleasesSuccessor(m, node, free_data) ==
    LET temp == findMin(m.h, m.h[node].right)
        temp_data == m.h[temp].data
        m1 == IF free_data THEN int_free(m, m.h[node].data) ELSE m
        m2 == [m1 EXCEPT !.h[node].data = temp_data,
                         !.moved = Append(@, <<node, temp_data>>)]
        m3 == delete(m2, m2.h[node].right, m2.h[temp].data, free_data)
    IN [m3 EXCEPT !.h[node].right = m3.r]

\* The two-child case without the assignment node->data = temp_data.
delete_two_childrenKeepsValue(m, node, free_data) ==
    LET temp == findMin(m.h, m.h[node].right)
        m1 == IF free_data THEN int_free(m, m.h[node].data) ELSE m
        m3 == delete(m1, m1.h[node].right, m1.h[temp].data, FALSE)
    IN [m3 EXCEPT !.h[node].right = m3.r]

\* delete, the node found has two children: it takes the data of its inorder
\* successor, whose node is then deleted from the right subtree.
delete_two_children(m, node, free_data) ==
    LET temp == findMin(m.h, m.h[node].right)
        temp_data == m.h[temp].data
        m1 == IF free_data THEN int_free(m, m.h[node].data) ELSE m
        m2 == [m1 EXCEPT !.h[node].data = temp_data,
                         !.moved = Append(@, <<node, temp_data>>)]
        m3 == delete(m2, m2.h[node].right, m2.h[temp].data, FALSE)
    IN [m3 EXCEPT !.h[node].right = m3.r]

delete(m, node, data, free_data) ==
    IF node = NULL
    THEN Return(m, node)
    ELSE LET cmp == int_compare(data, m.h[node].data)
         IN IF cmp < 0
            THEN LET m1 == delete(m, m.h[node].left, data, free_data)
                     m2 == [m1 EXCEPT !.h[node].left = m1.r]
                 IN rebalance(m2, node)
            ELSE IF cmp > 0
            THEN LET m1 == delete(m, m.h[node].right, data, free_data)
                     m2 == [m1 EXCEPT !.h[node].right = m1.r]
                 IN rebalance(m2, node)
            ELSE IF m.h[node].left = NULL \/ m.h[node].right = NULL
            THEN delete_one_child(m, node, free_data)
            ELSE rebalance(delete_two_children(m, node, free_data), node)

\* ------------------------------------------------------------- utilities
\* inorderTraversal visiting the node before its left subtree, as
\* preorderTraversal does.
RECURSIVE inorderTraversalVisitsFirst(_, _)
inorderTraversalVisitsFirst(h, root) ==
    IF root = NULL
    THEN <<>>
    ELSE <<h[root].data>>
         \o inorderTraversalVisitsFirst(h, h[root].left)
         \o inorderTraversalVisitsFirst(h, h[root].right)

\* inorderTraversal(root, print_data): the data pointers print_data is called
\* with, in order.
RECURSIVE inorderTraversal(_, _)
inorderTraversal(h, root) ==
    IF root = NULL
    THEN <<>>
    ELSE inorderTraversal(h, h[root].left)
         \o <<h[root].data>>
         \o inorderTraversal(h, h[root].right)

RECURSIVE getTreeSize(_, _)
getTreeSize(h, root) ==
    IF root = NULL
    THEN 0
    ELSE 1 + getTreeSize(h, h[root].left) + getTreeSize(h, h[root].right)

RECURSIVE freeAVLTree(_, _, _)
freeAVLTree(m, root, free_data) ==
    IF root = NULL
    THEN m
    ELSE LET left == m.h[root].left
             right == m.h[root].right
             data == m.h[root].data
             m1 == freeAVLTree(m, left, free_data)
             m2 == freeAVLTree(m1, right, free_data)
             m3 == IF free_data THEN int_free(m2, data) ELSE m2
         IN free(m3, root)

\* minVal and maxVal are int pointers, NULL for no bound.
RECURSIVE isValidBST(_, _, _, _)
isValidBST(h, root, minVal, maxVal) ==
    IF root = NULL
    THEN TRUE
    ELSE IF (minVal # NULL /\ int_compare(h[root].data, minVal) <= 0)
            \/ (maxVal # NULL /\ int_compare(h[root].data, maxVal) >= 0)
    THEN FALSE
    ELSE isValidBST(h, h[root].left, minVal, h[root].data)
         /\ isValidBST(h, h[root].right, h[root].data, maxVal)

\* ------------------------------------------------------- order statistics
\* AVL.h declares getSize and the tests call getRank, findKthSmallest,
\* findKthLargest, countRange and rangeQuery; their bodies follow the
\* description of the order-statistics layer.  A result that depends on a read
\* of node->size is the set of the results the read's outcomes lead to.

\* getSize(node): 0 for an absent node, else the stored field.
getSize(h, node) == IF node = NULL THEN {0} ELSE readSize(h, node)

\* The descent of getRank: acc counts the elements passed on the way down,
\* 1 + size(left) for every node left behind when descending right.
RECURSIVE rankFrom(_, _, _, _)
rankFrom(h, node, value, acc) ==
    IF node = NULL
    THEN {0}
    ELSE LET cmp == int_compare(value, h[node].data)
         IN IF cmp < 0
            THEN rankFrom(h, h[node].left, value, acc)
            ELSE UNION {IF cmp > 0
                        THEN rankFrom(h, h[node].right, value, acc + s + 1)
                        ELSE {acc + s + 1} : s \in getSize(h, h[node].left)}

\* getRank(root, value, compare)
getRank(h, root, value) == rankFrom(h, root, value, 0)

\* The descent of findKthSmallest: size(left) decides between the node, its
\* left subtree (same k) and its right subtree (k less left-size less one).
RECURSIVE kthSmallestFrom(_, _, _)
kthSmallestFrom(h, node, k) ==
    IF node = NULL
    THEN {NULL}
    ELSE UNION {IF k = s + 1
                THEN {node}
                ELSE IF k <= s
                THEN kthSmallestFrom(h, h[node].left, k)
                ELSE kthSmallestFrom(h, h[node].right, k - s - 1)
                : s \in getSize(h, h[node].left)}

\* findKthSmallest(root, k): absent for k outside [1, size(root)].
findKthSmallest(h, root, k) ==
    UNION {IF k < 1 \/ k > n THEN {NULL} ELSE kthSmallestFrom(h, root, k)
           : n \in getSize(h, root)}

\* The descent of findKthLargest, the mirror image on size(right).
RECURSIVE kthLargestFrom(_, _, _)
kthLargestFrom(h, node, k) ==
    IF node = NULL
    THEN {NULL}
    ELSE UNION {IF k = s + 1
                THEN {node}
                ELSE IF k <= s
                THEN kthLargestFrom(h, h[node].right, k)
                ELSE kthLargestFrom(h, h[node].left, k - s - 1)
                : s \in getSize(h, h[node].right)}

\* findKthLargest(root, k): absent for k outside [1, size(root)].
findKthLargest(h, root, k) ==
    UNION {IF k < 1 \/ k > n THEN {NULL} ELSE kthLargestFrom(h, root, k)
           : n \in getSize(h, root)}

\* countRange(root, low, high, compare): a subtree on the far side of a node
\* below low or above high is not entered.
RECURSIVE countRange(_, _, _, _)
countRange(h, node, low, high) ==
    IF node = NULL
    THEN 0
    ELSE IF int_compare(h[node].data, low) < 0
    THEN countRange(h, h[node].right, low, high)
    ELSE IF int_compare(h[node].data, high) > 0
    THEN countRange(h, h[node].left, low, high)
    ELSE 1 + countRange(h, h[node].left, low, high)
           + countRange(h, h[node].right, low, high)

\* rangeQuery(root, low, high, compare, visit, ...): the data pointers visit
\* is called with, in order; an in-order traversal that enters the left
\* subtree only of a node above low and the right subtree only of a node
\* below high.
RECURSIVE rangeQuery(_, _, _, _)
rangeQuery(h, node, low, high) ==
    IF node = NULL
    THEN <<>>
    ELSE LET aboveLow == int_compare(h[node].data, low)
             belowHigh == int_compare(h[node].data, high)
         IN (IF aboveLow > 0
             THEN rangeQuery(h, h[node].left, low, high) ELSE <<>>)
            \o (IF aboveLow >= 0 /\ belowHigh <= 0
                THEN <<h[node].data>> ELSE <<>>)
            \o (IF belowHigh < 0
                THEN rangeQuery(h, h[node].right, low, high) ELSE <<>>)

\* ----------------------------------------------------------------- state
\*   root     the caller's root variable
\*   heap     the allocated AVLNode structures
\*   last     what the last call was and what it did
\*   members  the values inserted and not deleted since the tree was empty
\*   net      successful insertions minus successful deletions
VARIABLES root, heap, last, members, net

vars == <<root, heap, last, members, net>>

\* The AVLNode addresses reachable from node.
RECURSIVE NodesOf(_, _)
NodesOf(h, node) ==
    IF node = NULL
    THEN {}
    ELSE {node} \cup NodesOf(h, h[node].left) \cup NodesOf(h, h[node].right)

\* The int objects the tree holds.
DataOf(h, node) == {h[a].data : a \in NodesOf(h, node)}

\* The record of a call: the operation, its int argument, whether free_data
\* was supplied, and the machine record the call ended with.
Call(op, key, data, free_data, m) ==
    [op |-> op, key |-> key, data |-> data, free_data |-> free_data,
     rots |-> m.rots, noop |-> m.noop, rebal |-> m.rebal, rel |-> m.rel,
     freed |-> m.freed, created |-> m.created, moved |-> m.moved]

Init ==
    /\ root = NULL
    /\ heap = << >>
    /\ last = Call("none", 0, NULL, FALSE, Machine(<< >>))
    /\ members = {}
    /\ net = 0

\* root = insert(root, create_int(k), int_compare); a rejected duplicate is
\* freed by the caller.
Insert(k) ==
    LET data == create_int(DataOf(heap, root), k)
        m == insert(Machine(heap), root, data)
    IN /\ Addrs \ DOMAIN heap # {}
       /\ root' = m.r
       /\ heap' = m.h
       /\ last' = Call("insert", k, data, FALSE, m)
       /\ members' = members \cup {k}
       /\ net' = IF k \in members THEN net ELSE net + 1

\* int val = k; root = delete(root, &val, int_compare, free_data);
Delete(k, free_data) ==
    LET data == addrOfLocal(k)
        m == delete(Machine(heap), root, data, free_data)
    IN /\ root' = m.r
       /\ heap' = m.h
       /\ last' = Call("delete", k, data, free_data, m)
       /\ members' = members \ {k}
       /\ net' = IF k \in members THEN net - 1 ELSE net

\* freeAVLTree(root, free_data); the caller starts over with an empty tree.
Teardown(free_data) ==
    LET m == freeAVLTree(Machine(heap), root, free_data)
    IN /\ root # NULL
       /\ root' = NULL
       /\ heap' = m.h
       /\ last' = Call("free", 0, NULL, free_data, m)
       /\ members' = {}
       /\ net' = 0

Next ==
    \/ \E k \in Keys : Insert(k)
    \/ \E k \in Keys, free_data \in BOOLEAN : Delete(k, free_data)
    \/ \E free_data \in BOOLEAN : Teardown(free_data)

Spec == Init /\ [][Next]_vars

\* The keys first..AscendingKeys inserted one after the other in ascending
\* order into the empty tree, as testStress does from 1: the first insert
\* chooses where the run starts, every later one inserts the successor of the
\* key inserted last.
AscendingInsert(k) ==
    /\ k = (IF root = NULL THEN k ELSE last.key + 1)
    /\ Insert(k)

NextAscending == \E k \in 1..AscendingKeys : AscendingInsert(k)

SpecAscending == Init /\ [][NextAscending]_vars

\* Runs of insertions alone, in any order, of values up to InsertKeys.
NextInsert == \E k \in 1..InsertKeys : Insert(k)

SpecInsert == Init /\ [][NextInsert]_vars

\* ------------------------------------------------- one call on a subtree
\* rebalance, rotateRight and rotateLeft as functions of a subtree: the
\* argument is a node whose two children are subtrees that isValidAVL accepts,
\* of every shape up to MaxChildHeight, the node's own stored height being
\* whatever an earlier state of its children left there.

\* A shape is <<>> (no node) or <<left shape, right shape>>.  The shapes of
\* the AVL trees of height ht.
RECURSIVE AVLShapes(_)
AVLShapes(ht) ==
    IF ht < 0
    THEN {}
    ELSE IF ht = 0
    THEN {<<>>}
    ELSE LET tall == AVLShapes(ht - 1)
             short == AVLShapes(ht - 2)
         IN {<<l, r>> : l \in tall, r \in tall}
            \cup {<<l, r>> : l \in tall, r \in short}
            \cup {<<l, r>> : l \in short, r \in tall}

RECURSIVE ShapeSize(_)
ShapeSize(s) == IF s = <<>> THEN 0 ELSE 1 + ShapeSize(s[1]) + ShapeSize(s[2])

RECURSIVE ShapeHeight(_)
ShapeHeight(s) ==
    IF s = <<>> THEN 0 ELSE 1 + MAX(ShapeHeight(s[1]), ShapeHeight(s[2]))

\* The address of the root of shape s laid out from address offset + 1 on:
\* a node's address is its position in the in-order sequence.
RootAddr(s, offset) ==
    IF s = <<>> THEN NULL ELSE offset + ShapeSize(s[1]) + 1

\* The AVLNode structures of shape s: the node at address a holds the int a;
\* sized tells whether the size fields happen to hold the subtree counts or
\* are as createNode leaves them.
RECURSIVE Build(_, _, _)
Build(s, offset, sized) ==
    IF s = <<>>
    THEN << >>
    ELSE LET a == RootAddr(s, offset)
         IN Build(s[1], offset, sized)
            @@ (a :> [data |-> intPtr(a, 0),
                      left |-> RootAddr(s[1], offset),
                      right |-> RootAddr(s[2], a),
                      height |-> ShapeHeight(s),
                      size |-> IF sized THEN ShapeSize(s)
                               ELSE INDETERMINATE])
            @@ Build(s[2], a, sized)

\* The ints held by the nodes of shape s laid out from address 1 on.
KeysOfShape(s) == 1..ShapeSize(s)

ChildShapes == UNION {AVLShapes(ht) : ht \in 0..MaxChildHeight}

InitLocal ==
    \E l \in ChildShapes, r \in ChildShapes, sized \in BOOLEAN,
       stale \in 1..(MaxChildHeight + 2) :
        LET built == Build(<<l, r>>, 0, sized)
            top == RootAddr(<<l, r>>, 0)
        IN /\ root = top
           /\ heap = [built EXCEPT ![top].height = stale]
           /\ last = Call("none", 0, NULL, FALSE, Machine(<< >>))
           /\ members = KeysOfShape(<<l, r>>)
           /\ net = ShapeSize(<<l, r>>)

\* root = rebalance(root)
Rebalance ==
    LET m == rebalance(Machine(heap), root)
    IN /\ root' = m.r
       /\ heap' = m.h
       /\ last' = Call("rebalance", 0, NULL, FALSE, m)
       /\ UNCHANGED <<members, net>>

\* root = rotateRight(root)
RotateRight ==
    LET m == rotateRight(Machine(heap), root)
    IN /\ root' = m.r
       /\ heap' = m.h
       /\ last' = Call("rotateRight", 0, NULL, FALSE, m)
       /\ UNCHANGED <<members, net>>

\* root = rotateLeft(root)
RotateLeft ==
    LET m == rotateLeft(Machine(heap), root)
    IN /\ root' = m.r
       /\ heap' = m.h
       /\ last' = Call("rotateLeft", 0, NULL, FALSE, m)
       /\ UNCHANGED <<members, net>>

NextLocal ==
    \/ Rebalance
    \/ RotateRight
    \/ RotateLeft

SpecLocal == InitLocal /\ [][NextLocal]_vars

\* ------------------------------------------------------ derived notions
\* The int values the tree holds.
KeysOf(h, node) == {deref(h[a].data) : a \in NodesOf(h, node)}

\* The number of nodes on the longest path from node down to a leaf.
RECURSIVE TrueHeight(_, _)
TrueHeight(h, node) ==
    IF node = NULL
    THEN 0
    ELSE 1 + MAX(TrueHeight(h, h[node].left), TrueHeight(h, h[node].right))

\* Every pointer of the tree leads to an allocated node.
WellFormed ==
    /\ root \in DOMAIN heap \cup {NULL}
    /\ \A a \in DOMAIN heap :
           /\ heap[a].left \in DOMAIN heap \cup {NULL}
           /\ heap[a].right \in DOMAIN heap \cup {NULL}

\* The last call was a delete that removed a value / an insert that added one.
Removed == last.op = "delete" /\ Len(last.freed) = 1
Added == last.op = "insert" /\ Len(last.created) = 1

\* ------------------------------------------------------------------- C1
\* C1: after any sequence of insert and delete calls from the empty tree the
\* tree is a binary search tree: at every node, every value of the left
\* subtree is less than the node's value and every value of the right subtree
\* is greater, and isValidBST(root, NULL, NULL, int_compare) returns true.
C1_BSTOrdering ==
    /\ isValidBST(heap, root, NULL, NULL)
    /\ \A n \in NodesOf(heap, root) :
           /\ \A v \in KeysOf(heap, heap[n].left) : v < deref(heap[n].data)
           /\ \A v \in KeysOf(heap, heap[n].right) : v > deref(heap[n].data)

\* A delete through the two-child case that also rotated, leaving three nodes.
C1_Witness ==
    /\ Removed
    /\ Len(last.moved) = 1
    /\ Len(last.rots) >= 1
    /\ getTreeSize(heap, root) = 3

\* ------------------------------------------------------------------- C2
\* C2: after every insert and delete every node is balanced: the true heights
\* of its two subtrees differ by at most one, and isValidAVL(root) returns
\* true.
C2_AVLBalance ==
    /\ isValidAVL(heap, root)
    /\ \A n \in NodesOf(heap, root) :
           TrueHeight(heap, heap[n].left) - TrueHeight(heap, heap[n].right)
               \in {-1, 0, 1}

\* A delete that needed a rotation, and an insert that needed a double one.
C2_Witness ==
    \/ Removed /\ Len(last.rots) >= 1 /\ getTreeSize(heap, root) >= 3
    \/ Added /\ Len(last.rots) = 2

\* ------------------------------------------------------------------- C3
\* C3: after every insert and delete the stored height of every node is
\* 1 + max(height(left), height(right)), absent children counting 0, which is
\* the number of nodes on the longest path from the node down to a leaf.
C3_HeightConsistency ==
    \A n \in NodesOf(heap, root) :
        /\ heap[n].height =
               1 + MAX(getHeight(heap, heap[n].left), getHeight(heap, heap[n].right))
        /\ heap[n].height = TrueHeight(heap, n)

\* A removal that rotated the root of a four-node tree: the old root went
\* down and the height of the tree dropped from 3 to 2.
C3_Witness ==
    /\ Removed
    /\ Len(last.rots) >= 1
    /\ root # NULL
    /\ heap[root].height = 2
    /\ last.rots[1][2] # root
    /\ heap[last.rots[1][2]].height = 1

\* ------------------------------------------------------------------- C4
\* C4: after every insert and delete the stored size of every node is
\* 1 + size(left) + size(right), an absent subtree having size 0; a freshly
\* created leaf has size 1.  Stated of every value a read of the field may
\* produce.
C4_SizeConsistency ==
    \A n \in NodesOf(heap, root) :
        \A v \in readSize(heap, n) :
            /\ v = 1 + getTreeSize(heap, heap[n].left)
                     + getTreeSize(heap, heap[n].right)
            /\ \A l \in (IF heap[n].left = NULL THEN {0}
                         ELSE readSize(heap, heap[n].left)) :
                   \A r \in (IF heap[n].right = NULL THEN {0}
                             ELSE readSize(heap, heap[n].right)) :
                       v = 1 + l + r

C6_Membership ==
    \A v \in Keys :
        LET n == search(heap, root, addrOfLocal(v))
        IN /\ (n # NULL) <=> (v \in members)
           /\ n # NULL =>
                  /\ n \in NodesOf(heap, root)
                  /\ int_compare(addrOfLocal(v), heap[n].data) = 0

\* A delete through the two-child case that left three values behind, and a
\* delete from a tree of one that left the empty tree.
C6_Witness ==
    \/ Removed /\ Len(last.moved) = 1 /\ Cardinality(members) >= 3
    \/ Removed /\ root = NULL

\* ------------------------------------------------------------------- C7
\* C7: an insert of a value that compares equal to one in the tree, at any
\* depth, leaves the tree as it was: the root returned is the same node, every
\* node keeps its children, data pointer and height, no node is created, the
\* size is unchanged and the tree does not hold the rejected data pointer.
C7_DuplicateInsert ==
    [][(last'.op = "insert" /\ last'.key \in KeysOf(heap, root))
          => /\ root' = root
             /\ heap' = heap
             /\ last'.created = <<>>
             /\ last'.rots = <<>>
             /\ getTreeSize(heap', root') = getTreeSize(heap, root)
             /\ last'.data \notin DataOf(heap', root')]_vars

\* A duplicate of a value held two levels below the root.
C7_Witness ==
    /\ last.op = "insert"
    /\ last.created = <<>>
    /\ Len(last.rebal) = 2
    /\ deref(last.data) \in KeysOf(heap, root)

\* ------------------------------------------------------------------- C8
\* C8: a delete of a value the tree does not hold, the empty tree included, is
\* a no-op: the root returned is the same node (NULL for the empty tree), the
\* nodes keep their children, data and heights, no rotation is applied on the
\* way back, no node is freed and free_data is not invoked.
C8_DeleteNonMember ==
    [][(last'.op = "delete" /\ last'.key \notin KeysOf(heap, root))
          => /\ root' = root
             /\ heap' = heap
             /\ last'.rots = <<>>
             /\ last'.freed = <<>>
             /\ last'.rel = <<>>]_vars

\* A delete, with free_data, that went two levels down and found nothing.
C8_Witness ==
    /\ last.op = "delete"
    /\ last.free_data
    /\ last.freed = <<>>
    /\ Len(last.rebal) = 2
    /\ last.key \notin KeysOf(heap, root)

\* ------------------------------------------------------------------- C9
\* The number of times p occurs in seq.
Count(seq, p) == Cardinality({i \in 1..Len(seq) : seq[i] = p})

\* C9: every value the tree accepted is released exactly once.  In every
\* call: free_data is invoked only on pointers the tree held before the call
\* and no longer holds after it; with free_data supplied every pointer that
\* left the tree was released once, a delete releasing only the value it was
\* asked to remove; a pointer relocated by the two-child case stays in the
\* tree unreleased; freeAVLTree leaves nothing behind; without free_data, and
\* in insert, nothing is released.
C9_ReleaseOnce ==
    [][LET before == DataOf(heap, root)
           after == DataOf(heap', root')
           rel == last'.rel
       IN /\ \A i \in 1..Len(rel) : rel[i] \in before \ after
          /\ \A p \in before \ after :
                 Count(rel, p) = IF last'.free_data THEN 1 ELSE 0
          /\ ~last'.free_data => rel = <<>>
          /\ last'.op = "insert" => rel = <<>> /\ before \subseteq after
          /\ last'.op = "delete" =>
                 /\ \A i \in 1..Len(rel) : deref(rel[i]) = last'.key
                 /\ after = {p \in before : deref(p) # last'.key}
          /\ last'.op = "free" => after = {}
          /\ \A i \in 1..Len(last'.moved) :
                 /\ last'.moved[i][2] \in after
                 /\ Count(rel, last'.moved[i][2]) = 0]_vars

\* A delete with free_data through the two-child case.
C9_Witness ==
    /\ Removed
    /\ last.free_data
    /\ Len(last.moved) = 1
    /\ Len(last.rel) = 1
    /\ Cardinality(DataOf(heap, root)) >= 2

\* ------------------------------------------------------------------ C10
\* The stored heights below node are consistent.
HeightsConsistent(h, node) ==
    \A n \in NodesOf(h, node) :
        h[n].height = 1 + MAX(getHeight(h, h[n].left), getHeight(h, h[n].right))

\* C10: a delete of the value of a node with two children keeps that node,
\* gives it the data of its inorder successor (the minimum of its right
\* subtree), removes exactly the successor's node, creates none, calls
\* rebalance on the node, and leaves the old values without the deleted one
\* in a tree that is a BST, balanced and height-consistent.
C10_TwoChildDelete ==
    [][LET n == search(heap, root, last'.data)
       IN (/\ last'.op = "delete"
           /\ n # NULL
           /\ heap[n].left # NULL
           /\ heap[n].right # NULL)
          => LET succ == findMin(heap, heap[n].right)
             IN /\ succ \in NodesOf(heap, heap[n].right)
                /\ \A v \in KeysOf(heap, heap[n].right) :
                       deref(heap[succ].data) <= v
                /\ n \in NodesOf(heap', root')
                /\ heap'[n].data = heap[succ].data
                /\ last'.moved = << <<n, heap[succ].data>> >>
                /\ last'.freed = <<succ>>
                /\ last'.created = <<>>
                /\ DOMAIN heap' = (DOMAIN heap) \ {succ}
                /\ NodesOf(heap', root') = NodesOf(heap, root) \ {succ}
                /\ \E i \in 1..Len(last'.rebal) : last'.rebal[i][1] = n
                /\ KeysOf(heap', root') = KeysOf(heap, root) \ {last'.key}
                /\ isValidBST(heap', root', NULL, NULL)
                /\ isValidAVL(heap', root')
                /\ HeightsConsistent(heap', root')]_vars

\* A two-child delete whose successor was not the node's right child: the
\* first rebalance was of a node of the right subtree.
C10_Witness ==
    /\ Removed
    /\ Len(last.moved) = 1
    /\ Len(last.rebal) >= 2
    /\ last.rebal[1][1] # last.moved[1][1]

\* ------------------------------------------------------------------ C11
\* The int value node holds.
KeyAt(h, node) == deref(h[node].data)

\* node has no children.
IsLeaf(h, node) == node # NULL /\ h[node].left = NULL /\ h[node].right = NULL

\* C11: three distinct keys a < b < c inserted into the empty tree in
\* descending order take exactly one single right rotation, and in ascending
\* order exactly one single left rotation; in both cases the root becomes b
\* with a as left and c as right child, a valid BST and AVL tree.  Stated
\* insert by insert: the first insert makes a leaf and the second hangs a leaf
\* under it, both without rotation; the third, below the child on the same
\* side, rotates the root once.
C11_ThreeKeys ==
    [][last'.op = "insert" =>
          LET k == last'.key
              new == last'.created[1]
          IN /\ root = NULL =>
                    /\ last'.rots = <<>>
                    /\ last'.created = <<root'>>
                    /\ IsLeaf(heap', root')
                    /\ KeyAt(heap', root') = k
             /\ (IsLeaf(heap, root) /\ k # KeyAt(heap, root)) =>
                    /\ last'.rots = <<>>
                    /\ root' = root
                    /\ Len(last'.created) = 1
                    /\ IsLeaf(heap', new)
                    /\ KeyAt(heap', new) = k
                    /\ heap'[root].left = (IF k < KeyAt(heap, root) THEN new ELSE NULL)
                    /\ heap'[root].right = (IF k > KeyAt(heap, root) THEN new ELSE NULL)
             /\ (/\ root # NULL
                 /\ heap[root].right = NULL
                 /\ IsLeaf(heap, heap[root].left)
                 /\ k < KeyAt(heap, heap[root].left)) =>
                    /\ last'.rots = << <<"R", root>> >>
                    /\ last'.noop = <<>>
                    /\ root' = heap[root].left
                    /\ KeyAt(heap', root') = KeyAt(heap, heap[root].left)
                    /\ heap'[root'].left = new
                    /\ heap'[root'].right = root
                    /\ IsLeaf(heap', new) /\ KeyAt(heap', new) = k
                    /\ IsLeaf(heap', root) /\ KeyAt(heap', root) = KeyAt(heap, root)
                    /\ isValidBST(heap', root', NULL, NULL)
                    /\ isValidAVL(heap', root')
             /\ (/\ root # NULL
                 /\ heap[root].left = NULL
                 /\ IsLeaf(heap, heap[root].right)
                 /\ k > KeyAt(heap, heap[root].right)) =>
                    /\ last'.rots = << <<"L", root>> >>
                    /\ last'.noop = <<>>
                    /\ root' = heap[root].right
                    /\ KeyAt(heap', root') = KeyAt(heap, heap[root].right)
                    /\ heap'[root'].left = root
                    /\ heap'[root'].right = new
                    /\ IsLeaf(heap', new) /\ KeyAt(heap', new) = k
                    /\ IsLeaf(heap', root) /\ KeyAt(heap', root) = KeyAt(heap, root)
                    /\ isValidBST(heap', root', NULL, NULL)
                    /\ isValidAVL(heap', root')]_vars

\* The third of three descending inserts: one right rotation of the old root,
\* which is now the right child of the middle key.
C11_Witness ==
    /\ Added
    /\ Len(last.rots) = 1
    /\ last.rots[1][1] = "R"
    /\ getTreeSize(heap, root) = 3
    /\ heap[root].right = last.rots[1][2]
    /\ heap[root].left = last.created[1]
    /\ KeyAt(heap, heap[root].left) < KeyAt(heap, root)
    /\ KeyAt(heap, root) < KeyAt(heap, heap[root].right)

\* ------------------------------------------------------------------ C12
\* C12: while the keys 1..30 are inserted in ascending order into the empty
\* tree, after every single insertion isValidAVL passes and the height of the
\* root is at most ceil(1.44 * log2(31)) = 8: the tree does not grow towards
\* linear height.  Checked of every run first..30, the run from 1 included.
C12_AscendingHeight ==
    /\ isValidAVL(heap, root)
    /\ getHeight(heap, root) <= 8
    /\ TrueHeight(heap, root) <= 8

\* All of 1..AscendingKeys inserted, the last insert having rotated.
C12_Witness ==
    /\ members = 1..AscendingKeys
    /\ getTreeSize(heap, root) = AscendingKeys
    /\ Added
    /\ last.key = AscendingKeys
    /\ Len(last.rots) = 1

\* ------------------------------------------------------------------ C13
\* C13: the in-order traversal of any tree reached by insert and delete calls
\* the visitor once per stored element, in strictly ascending order, and the
\* values visited are exactly those inserted and not deleted since.
C13_InorderSorted ==
    LET visited == inorderTraversal(heap, root)
    IN /\ Len(visited) = Cardinality(members)
       /\ {deref(visited[i]) : i \in 1..Len(visited)} = members
       /\ {visited[i] : i \in 1..Len(visited)} = DataOf(heap, root)
       /\ \A i \in 1..Len(visited) : Count(visited, visited[i]) = 1
       /\ \A i \in 1..(Len(visited) - 1) :
              int_compare(visited[i], visited[i + 1]) < 0

\* Three values left after a removal that rotated.
C13_Witness ==
    /\ Removed
    /\ Len(last.rots) >= 1
    /\ Len(inorderTraversal(heap, root)) = 3

\* ------------------------------------------------------------------ C14
\* The nodes reached from node by left children only / right children only.
RECURSIVE LeftSpine(_, _)
LeftSpine(h, node) ==
    IF node = NULL THEN {} ELSE {node} \cup LeftSpine(h, h[node].left)

RECURSIVE RightSpine(_, _)
RightSpine(h, node) ==
    IF node = NULL THEN {} ELSE {node} \cup RightSpine(h, h[node].right)

\* C14: findMin(root) is the node with the smallest and findMax(root) the
\* node with the largest stored value, reached by left (right) children only;
\* on the empty tree both return NULL.
C14_MinMax ==
    LET lo == findMin(heap, root)
        hi == findMax(heap, root)
    IN IF root = NULL
       THEN lo = NULL /\ hi = NULL
       ELSE /\ lo \in LeftSpine(heap, root)
            /\ heap[lo].left = NULL
            /\ \A v \in members : KeyAt(heap, lo) <= v
            /\ KeyAt(heap, lo) \in members
            /\ hi \in RightSpine(heap, root)
            /\ heap[hi].right = NULL
            /\ \A v \in members : KeyAt(heap, hi) >= v
            /\ KeyAt(heap, hi) \in members

\* The largest value sits two levels below the root and the smallest is not
\* at the root.
C14_Witness ==
    /\ root # NULL
    /\ findMax(heap, root) \notin {root, heap[root].right}
    /\ findMin(heap, root) # root

\* ------------------------------------------------------------------ C15
\* C15: rank and k-th smallest are inverse to each other: for every k from 1
\* to size(root) the rank of the value of findKthSmallest(root, k) is k; for
\* every stored value v, findKthSmallest(root, getRank(root, v)) holds v; the
\* rank of a value that is not stored is 0.  Stated of every result the reads
\* of the size fields may lead to.
C15_RankKthInverse ==
    /\ \A n \in getSize(heap, root) : \A k \in 1..n :
           \A node \in findKthSmallest(heap, root, k) :
               /\ node # NULL
               /\ \A r \in getRank(heap, root, heap[node].data) : r = k
    /\ \A v \in members :
           \A r \in getRank(heap, root, addrOfLocal(v)) :
               \A node \in findKthSmallest(heap, root, r) :
                   /\ node # NULL
                   /\ KeyAt(heap, node) = v
    /\ \A v \in Keys \ members : getRank(heap, root, addrOfLocal(v)) = {0}

\* ------------------------------------------------------------------ C16
\* The values of k asked for: from 0 to two past the largest tree.
KthSample == 0..(MaxKey + 2)

\* C16: findKthSmallest(root, k) and findKthLargest(root, k) return NULL for
\* every k outside 1..size(root), k = 0, k = size(root) + 1 and every k on the
\* empty tree among them, and a node of the tree for every k inside.  Stated
\* of every result the reads of the size fields may lead to.
C16_KthOutOfRange ==
    \A n \in getSize(heap, root) : \A k \in KthSample :
        LET results == findKthSmallest(heap, root, k)
                           \cup findKthLargest(heap, root, k)
        IN IF k \in 1..n
           THEN results \subseteq NodesOf(heap, root)
           ELSE results = {NULL}

\* ------------------------------------------------------------------ C17
\* C17: for every pair of bounds lo, hi, countRange(root, lo, hi) is the
\* number of elements rangeQuery(root, lo, hi) hands to its visitor; every
\* element visited lies in [lo, hi], both ends included; every stored element
\* of that interval is visited once; the visits are in ascending order.
C17_RangeConsistency ==
    \A lo \in Keys : \A hi \in Keys :
        LET low == addrOfLocal(lo)
            high == addrOfLocal(hi)
            visited == rangeQuery(heap, root, low, high)
        IN /\ countRange(heap, root, low, high) = Len(visited)
           /\ \A i \in 1..Len(visited) :
                  /\ int_compare(low, visited[i]) <= 0
                  /\ int_compare(visited[i], high) <= 0
                  /\ visited[i] \in DataOf(heap, root)
           /\ \A v \in members : lo <= v /\ v <= hi =>
                  Cardinality({i \in 1..Len(visited) :
                                   deref(visited[i]) = v}) = 1
           /\ \A i \in 1..(Len(visited) - 1) :
                  int_compare(visited[i], visited[i + 1]) < 0

\* Four values stored, the smallest and the largest outside [2, 3] and both
\* values of [2, 3] visited.
C17_Witness ==
    /\ Cardinality(members) = 4
    /\ 1 \in members
    /\ countRange(heap, root, addrOfLocal(2), addrOfLocal(3)) = 2
    /\ Len(rangeQuery(heap, root, addrOfLocal(2), addrOfLocal(3))) = 2
    /\ Len(rangeQuery(heap, root, addrOfLocal(1), addrOfLocal(1))) = 1

\* ------------------------------------------------------------------ C18
\* Every value a read of a size field in the subtree may produce is the
\* number of nodes below and including its node.
SizesConsistent(h, node) ==
    \A n \in NodesOf(h, node) : \A v \in readSize(h, n) :
        v = 1 + getTreeSize(h, h[n].left) + getTreeSize(h, h[n].right)

\* Both children of node are balanced, height consistent and size consistent
\* throughout.
ChildrenValid(h, node) ==
    /\ isValidAVL(h, h[node].left)
    /\ isValidAVL(h, h[node].right)
    /\ SizesConsistent(h, h[node].left)
    /\ SizesConsistent(h, h[node].right)

\* C18: when both children of node are balanced, height consistent and size
\* consistent throughout, the subtree returned by rebalance(node) is balanced,
\* height consistent and size consistent at every node, holds the same values
\* in the same in-order sequence, and is node itself when the heights of the
\* two children differ by at most 1.
C18_RebalanceLocal ==
    [][(last'.op = "rebalance" /\ ChildrenValid(heap, root)) =>
           /\ isValidAVL(heap', root')
           /\ SizesConsistent(heap', root')
           /\ inorderTraversal(heap', root') = inorderTraversal(heap, root)
           /\ (ABS(getBalance(heap, root)) <= 1 => root' = root)]_vars

\* What rebalance does restore: balance and heights, the in-order sequence
\* kept, when the heights of the two valid children differ by at most 2.
RebalanceRestoresBalance ==
    [][(/\ last'.op = "rebalance"
        /\ isValidAVL(heap, heap[root].left)
        /\ isValidAVL(heap, heap[root].right)
        /\ ABS(getBalance(heap, root)) <= 2) =>
           /\ isValidAVL(heap', root')
           /\ inorderTraversal(heap', root') = inorderTraversal(heap, root)
           /\ (ABS(getBalance(heap, root)) <= 1 => root' = root)]_vars

\* ------------------------------------------------------------------ C19
\* The step is a rotation of node that promotes pivot: pivot is returned, the
\* in-order sequence is kept, no node but node and pivot changes, of these
\* two only the exchanged child pointer and the height, and both heights are
\* 1 + the larger height of the children.
Rotated(node, pivot) ==
    /\ root' = pivot
    /\ inorderTraversal(heap', root') = inorderTraversal(heap, root)
    /\ DOMAIN heap' = DOMAIN heap
    /\ \A a \in DOMAIN heap \ {node, pivot} : heap'[a] = heap[a]
    /\ \A a \in {node, pivot} :
           /\ heap'[a].data = heap[a].data
           /\ heap'[a].size = heap[a].size
           /\ heap'[a].height =
                  1 + MAX(getHeight(heap', heap'[a].left),
                          getHeight(heap', heap'[a].right))

\* C19: rotateRight(node) with a left child and rotateLeft(node) with a right
\* child return the promoted child, keep the in-order sequence of the subtree,
\* leave every other node untouched and leave the heights of the old and the
\* new root at 1 + max of their children's heights; without the child the
\* rotation returns node and changes nothing.
C19_Rotations ==
    [][/\ last'.op = "rotateRight" =>
              IF heap[root].left # NULL
              THEN /\ Rotated(root, heap[root].left)
                   /\ heap'[root].left = heap[heap[root].left].right
                   /\ heap'[root].right = heap[root].right
                   /\ heap'[root'].right = root
                   /\ heap'[root'].left = heap[root'].left
              ELSE root' = root /\ heap' = heap
       /\ last'.op = "rotateLeft" =>
              IF heap[root].right # NULL
              THEN /\ Rotated(root, heap[root].right)
                   /\ heap'[root].right = heap[heap[root].right].left
                   /\ heap'[root].left = heap[root].left
                   /\ heap'[root'].left = root
                   /\ heap'[root'].right = heap[root'].right
              ELSE root' = root /\ heap' = heap]_vars

\* A left rotation has handed the promoted child's left subtree to the node
\* that went down, whose height changed the height of the new root.
C19_Witness ==
    /\ last.op = "rotateLeft"
    /\ Len(last.rots) = 1
    /\ heap[root].left # NULL
    /\ heap[heap[root].left].right # NULL
    /\ heap[root].right # NULL
    /\ heap[root].height = heap[heap[root].left].height + 1

\* ------------------------------------------------------------------ C20
\* The calls of rebalance in the last operation that found their node out of
\* balance, which are those that rotate.
Applications ==
    {i \in 1..Len(last.rebal) : ABS(last.rebal[i][2]) > 1}

\* C20: during one insert at most one rebalance call on the way back up the
\* insertion path applies a rotation, a single one or a double one, at the
\* node it was called on; every other call returns its node without rotating.
\* (A delete may rotate at every level: nothing is claimed of it.)
C20_InsertRotatesOnce ==
    last.op = "insert" =>
        /\ Cardinality(Applications) <= 1
        /\ last.noop = <<>>
        /\ Applications = {} => last.rots = <<>>
        /\ \A i \in Applications :
               /\ Len(last.rots) \in {1, 2}
               /\ last.rots[Len(last.rots)][2] = last.rebal[i][1]
               /\ Len(last.rots) = 2 =>
                      last.rots[1][1] # last.rots[2][1]

\* An insert whose rotation was applied below the root: rebalance calls that
\* do not rotate came before it and after it.
C20_Witness ==
    /\ Added
    /\ Len(last.rebal) >= 3
    /\ \E i \in Applications : 1 < i /\ i < Len(last.rebal)
    /\ Len(last.rots) = 2

\* ------------------------------------------------------------------ C21
\* C21: at every call of rebalance made by insert or delete the balance
\* computed after the height update lies in -2..2 and both children are
\* balanced and height consistent throughout; every rotation chosen finds the
\* child it promotes, so that no rotation takes its absent-child return: each
\* call out of balance performs one or two rotations and no other call any.
C21_RebalanceCalls ==
    last.op \in {"insert", "delete"} =>
        /\ \A i \in 1..Len(last.rebal) :
               /\ last.rebal[i][2] \in -2..2
               /\ last.rebal[i][3]
        /\ last.noop = <<>>
        /\ Cardinality(Applications) <= Len(last.rots)
        /\ Len(last.rots) <= 2 * Cardinality(Applications)

\* A removal one of whose rebalance calls found a balance of 2 and rotated
\* twice.
C21_Witness ==
    /\ Removed
    /\ Len(last.rots) = 2
    /\ Len(last.rebal) >= 1
    /\ \E i \in 1..Len(last.rebal) : last.rebal[i][2] = 2

====
